---- MODULE Spec2Model ----
(***************************************************************************)
(* The in-memory Person/Address/Club/Player store of main.py: four dicts   *)
(* keyed by UUID and the request handlers that read and write them.        *)
(*                                                                         *)
(* Served one at a time, a handler runs to completion and is one action;   *)
(* SpecThreads splits the handlers into their statements and interleaves   *)
(* two of them.  `last` records the handler that ran last: its             *)
(* name, the identifier of its path (or of its body, for a create), the    *)
(* identifier its body carried, and the outcome it gave its caller.  `now` *)
(* is the reading of datetime.utcnow.                                      *)
(*                                                                         *)
(* The specifications share the actions and differ in the requests served: *)
(*   Spec        Club and Player requests, time passing between requests   *)
(*               and between the two utcnow() calls of one constructor;    *)
(*   SpecData    Club and Player requests within one reading of the clock  *)
(*               (timestamps play no part in a handler's control flow);    *)
(*   SpecStore   requests on all four repositories within one reading of   *)
(*               the clock;                                                *)
(*   SpecList    the Club, Player and Address collections and their list   *)
(*               requests, the dicts in insertion order;                   *)
(*   SpecPersons the Person collection and list_persons;                   *)
(*   SpecDates   Players and Persons with and without a birth date and the *)
(*               list requests that filter by it;                          *)
(*   SpecRoster  Clubs, the Players that refer to them and                 *)
(*               get_club_players;                                         *)
(*   SpecThreads two worker threads running the Club and Player handlers   *)
(*               statement by statement.                                   *)
(***************************************************************************)
EXTENDS Integers, FiniteSets, Sequences, TLC

VARIABLES persons, addresses, clubs, players, now, last, order, seen, calls

vars == <<persons, addresses, clubs, players, now, last, order, seen, calls>>

(***************************************************************************)
(* Bounds and input domains.                                               *)
(***************************************************************************)
\* Largest reading of the clock (datetime.utcnow) in a run.
MaxClock == 1

\* Most fields one PATCH body supplies.
MaxSupplied == 1

\* Most query parameters one list request carries.
MaxFilters == 3

\* Python's None.
NULL == "None"

UUIDs == {"u1", "u2"}
\* Identifiers the Player, Address and Person records of a run carry.
PlayerIds == {"u1"}
AddressIds == {"u1"}
PersonIds == {"u1"}

Cities == {"Istanbul", "Madrid"}
Names == {"Galatasaray"}
Countries == {"Turkey"}
FirstNames == {"Lionel"}
LastNames == {"Messi"}
Positions == {"Center Forward"}
\* datetime.date values, written as Python shows them.
Dates == {"date(1987, 6, 24)"}
Streets == {"123 Main Street"}
States == {"NY"}
PostalCodes == {"10001"}
Unis == {"abc1234"}
Emails == {"ada@example.com"}
Phones == {"+1-212-555-0199"}

\* What the second utcnow() of one constructor call may read beyond the first.
Drift == {0, 1}

(***************************************************************************)
(* Dict helpers.                                                           *)
(***************************************************************************)
EmptyDict == [k \in {} |-> NULL]

\* d[k] = v
DictSet(d, k, v) == [x \in (DOMAIN d) \cup {k} |-> IF x = k THEN v ELSE d[x]]

\* del d[k]
DictDel(d, k) == [x \in (DOMAIN d) \ {k} |-> d[x]]

\* Mutant of DictUpdate: update.model_dump(exclude_none=True), None standing
\* for "not supplied", so a supplied null never reaches the stored record.
DictUpdate_none_as_absent(stored, upd) ==
    [f \in DOMAIN stored |->
        IF f \in DOMAIN upd /\ upd[f] # NULL THEN upd[f] ELSE stored[f]]

\* stored.update(update.model_dump(exclude_unset=True)): the keys the update
\* carries overwrite, every other key keeps its value.
DictUpdate(stored, upd) ==
    [f \in DOMAIN stored |-> IF f \in DOMAIN upd THEN upd[f] ELSE stored[f]]

\* The dicts with keys S and, under each key f, a value of Dom[f].
RECURSIVE Assignments(_, _)
Assignments(Dom, S) ==
    IF S = {} THEN {EmptyDict}
    ELSE LET f == CHOOSE x \in S : TRUE
         IN  {DictSet(u, f, v) : u \in Assignments(Dom, S \ {f}), v \in Dom[f]}

\* The bodies a PATCH can carry: any subset of the update model's fields, each
\* with a value of its type or an explicit null (every field is Optional).
SparseUpdates(Dom) ==
    UNION { Assignments(Dom, S) :
            S \in {T \in SUBSET (DOMAIN Dom) : Cardinality(T) <= MaxSupplied} }

\* model_dump(exclude = ex)
model_dump_exclude(rec, ex) == [f \in (DOMAIN rec) \ ex |-> rec[f]]

\* f(id = id, **kw)
WithId(id, kw) == [f \in (DOMAIN kw) \cup {"id"} |-> IF f = "id" THEN id ELSE kw[f]]

\* A request's outcome as its caller sees it.
Response(op, id, body_id, status) ==
    [op |-> op, id |-> id, body_id |-> body_id, status |-> status]

(***************************************************************************)
(* models/club.py                                                          *)
(***************************************************************************)
\* ClubCreate: the bodies of POST /clubs and PUT /clubs/{id}.  The id is the
\* caller's, or uuid4's when the body has none.
ClubCreate == [id : UUIDs, city : Cities, name : Names, country : Countries]

\* ClubUpdate: the bodies of PATCH /clubs/{id}.
ClubUpdate ==
    SparseUpdates([city |-> Cities \cup {NULL}, name |-> Names \cup {NULL},
                   country |-> Countries \cup {NULL}])

\* ClubRead(**kw) raises a ValidationError unless the str fields are strings.
ClubValid(kw) == kw.city # NULL /\ kw.name # NULL /\ kw.country # NULL

\* ClubRead(**kw): created_at and updated_at come from kw when kw carries them;
\* otherwise each calls its default_factory, datetime.utcnow, created_at first
\* (t1) and updated_at second (t2).
ClubRead(kw, t1, t2) ==
    [id |-> kw.id, city |-> kw.city, name |-> kw.name, country |-> kw.country,
     created_at |-> IF "created_at" \in DOMAIN kw THEN kw.created_at ELSE t1,
     updated_at |-> IF "updated_at" \in DOMAIN kw THEN kw.updated_at ELSE t2]

(***************************************************************************)
(* Club endpoints of main.py                                               *)
(***************************************************************************)
\* Mutant of create_club: no membership test, the insert overwrites.
create_club_overwrite(club, d) ==
    /\ now + d <= MaxClock
    /\ clubs' = DictSet(clubs, club.id, ClubRead(club, now, now + d))
    /\ now' = now + d
    /\ last' = Response("create_club", club.id, club.id, "ok")
    /\ UNCHANGED <<persons, addresses, players>>

create_club(club, d) ==
    /\ now + d <= MaxClock
    /\ IF club.id \in DOMAIN clubs
       THEN /\ last' = Response("create_club", club.id, club.id, "Conflict")
            /\ UNCHANGED <<clubs, now>>
       ELSE /\ clubs' = DictSet(clubs, club.id, ClubRead(club, now, now + d))
            /\ now' = now + d
            /\ last' = Response("create_club", club.id, club.id, "ok")
    /\ UNCHANGED <<persons, addresses, players>>

get_club(club_id) ==
    /\ last' = Response("get_club", club_id, NULL,
                        IF club_id \in DOMAIN clubs THEN "ok" ELSE "NotFound")
    /\ UNCHANGED <<persons, addresses, clubs, players, now>>

update_club(club_id, update) ==
    /\ IF club_id \notin DOMAIN clubs
       THEN /\ last' = Response("update_club", club_id, NULL, "NotFound")
            /\ UNCHANGED clubs
       ELSE LET stored == DictUpdate(clubs[club_id], update)
            IN  IF ~ClubValid(stored)
                THEN /\ last' = Response("update_club", club_id, NULL, "ValidationError")
                     /\ UNCHANGED clubs
                ELSE /\ clubs' = DictSet(clubs, club_id, ClubRead(stored, now, now))
                     /\ last' = Response("update_club", club_id, NULL, "ok")
    /\ UNCHANGED <<persons, addresses, players, now>>

\* Mutant of delete_club: the delete cascades to the Players of the Club.
delete_club_cascade(club_id) ==
    /\ IF club_id \notin DOMAIN clubs
       THEN /\ last' = Response("delete_club", club_id, NULL, "NotFound")
            /\ UNCHANGED <<clubs, players>>
       ELSE /\ clubs' = DictDel(clubs, club_id)
            /\ players' = [k \in {x \in DOMAIN players : players[x].club_id # club_id}
                              |-> players[k]]
            /\ last' = Response("delete_club", club_id, NULL, "ok")
    /\ UNCHANGED <<persons, addresses, now>>

delete_club(club_id) ==
    /\ IF club_id \notin DOMAIN clubs
       THEN /\ last' = Response("delete_club", club_id, NULL, "NotFound")
            /\ UNCHANGED clubs
       ELSE /\ clubs' = DictDel(clubs, club_id)
            /\ last' = Response("delete_club", club_id, NULL, "ok")
    /\ UNCHANGED <<persons, addresses, players, now>>

\* Mutant of put_club: the record is built from the whole body, its id included.
put_club_body_id(club_id, club, d) ==
    /\ now + d <= MaxClock
    /\ IF club_id \notin DOMAIN clubs
       THEN /\ last' = Response("put_club", club_id, club.id, "NotFound")
            /\ UNCHANGED <<clubs, now>>
       ELSE /\ clubs' = DictSet(clubs, club_id, ClubRead(club, now, now + d))
            /\ now' = now + d
            /\ last' = Response("put_club", club_id, club.id, "ok")
    /\ UNCHANGED <<persons, addresses, players>>

put_club(club_id, club, d) ==
    /\ now + d <= MaxClock
    /\ IF club_id \notin DOMAIN clubs
       THEN /\ last' = Response("put_club", club_id, club.id, "NotFound")
            /\ UNCHANGED <<clubs, now>>
       ELSE /\ clubs' = DictSet(clubs, club_id,
                           ClubRead(WithId(club_id, model_dump_exclude(club, {"id"})),
                                    now, now + d))
            /\ now' = now + d
            /\ last' = Response("put_club", club_id, club.id, "ok")
    /\ UNCHANGED <<persons, addresses, players>>

(***************************************************************************)
(* models/player.py                                                        *)
(***************************************************************************)
\* PlayerCreate: the bodies of POST /players and PUT /players/{id}.
PlayerCreate ==
    [id : UUIDs, first_name : FirstNames, last_name : LastNames,
     position : Positions, birth_date : Dates \cup {NULL},
     club_id : UUIDs \cup {NULL}]

\* PlayerUpdate: the bodies of PATCH /players/{id}.
PlayerUpdate ==
    SparseUpdates([first_name |-> FirstNames \cup {NULL},
                   last_name |-> LastNames \cup {NULL},
                   position |-> Positions \cup {NULL},
                   birth_date |-> Dates \cup {NULL},
                   club_id |-> UUIDs \cup {NULL}])

\* PlayerRead(**kw) raises a ValidationError unless the str fields are strings;
\* birth_date and club_id are Optional.
PlayerValid(kw) ==
    kw.first_name # NULL /\ kw.last_name # NULL /\ kw.position # NULL

\* PlayerRead(**kw): the timestamps as in ClubRead.
PlayerRead(kw, t1, t2) ==
    [id |-> kw.id, first_name |-> kw.first_name, last_name |-> kw.last_name,
     position |-> kw.position, birth_date |-> kw.birth_date,
     club_id |-> kw.club_id,
     created_at |-> IF "created_at" \in DOMAIN kw THEN kw.created_at ELSE t1,
     updated_at |-> IF "updated_at" \in DOMAIN kw THEN kw.updated_at ELSE t2]

\* bool(x) of an Optional[UUID]: None is false, every UUID is true.
Truthy(x) == x # NULL

(***************************************************************************)
(* Player endpoints of main.py                                             *)
(***************************************************************************)
\* Mutant of ClubMissing: the club lookup left out.
ClubMissing_unchecked(player) == FALSE

\* `player.club_id and not player.club_id in clubs`
ClubMissing(player) == Truthy(player.club_id) /\ ~(player.club_id \in DOMAIN clubs)

create_player(player, d) ==
    /\ now + d <= MaxClock
    /\ IF player.id \in DOMAIN players
       THEN /\ last' = Response("create_player", player.id, player.id, "Conflict")
            /\ UNCHANGED <<players, now>>
       ELSE IF ClubMissing(player)
       THEN /\ last' = Response("create_player", player.id, player.id, "InvalidReference")
            /\ UNCHANGED <<players, now>>
       ELSE /\ players' = DictSet(players, player.id, PlayerRead(player, now, now + d))
            /\ now' = now + d
            /\ last' = Response("create_player", player.id, player.id, "ok")
    /\ UNCHANGED <<persons, addresses, clubs>>

get_player(player_id) ==
    /\ last' = Response("get_player", player_id, NULL,
                        IF player_id \in DOMAIN players THEN "ok" ELSE "NotFound")
    /\ UNCHANGED <<persons, addresses, clubs, players, now>>

update_player(player_id, update) ==
    /\ IF player_id \notin DOMAIN players
       THEN /\ last' = Response("update_player", player_id, NULL, "NotFound")
            /\ UNCHANGED players
       ELSE LET stored == DictUpdate(players[player_id], update)
            IN  IF ~PlayerValid(stored)
                THEN /\ last' = Response("update_player", player_id, NULL, "ValidationError")
                     /\ UNCHANGED players
                ELSE /\ players' = DictSet(players, player_id, PlayerRead(stored, now, now))
                     /\ last' = Response("update_player", player_id, NULL, "ok")
    /\ UNCHANGED <<persons, addresses, clubs, now>>

\* Mutant of delete_player: answers as a delete does but keeps the record.
delete_player_keeps(player_id) ==
    /\ last' = Response("delete_player", player_id, NULL,
                        IF player_id \in DOMAIN players THEN "ok" ELSE "NotFound")
    /\ UNCHANGED <<persons, addresses, clubs, players, now>>

delete_player(player_id) ==
    /\ IF player_id \notin DOMAIN players
       THEN /\ last' = Response("delete_player", player_id, NULL, "NotFound")
            /\ UNCHANGED players
       ELSE /\ players' = DictDel(players, player_id)
            /\ last' = Response("delete_player", player_id, NULL, "ok")
    /\ UNCHANGED <<persons, addresses, clubs, now>>

put_player(player_id, player, d) ==
    /\ now + d <= MaxClock
    /\ IF player_id \notin DOMAIN players
       THEN /\ last' = Response("put_player", player_id, player.id, "NotFound")
            /\ UNCHANGED <<players, now>>
       ELSE /\ players' = DictSet(players, player_id,
                             PlayerRead(WithId(player_id, model_dump_exclude(player, {"id"})),
                                        now, now + d))
            /\ now' = now + d
            /\ last' = Response("put_player", player_id, player.id, "ok")
    /\ UNCHANGED <<persons, addresses, clubs>>

(***************************************************************************)
(* models/address.py                                                       *)
(***************************************************************************)
\* AddressCreate: the bodies of POST /addresses.
AddressCreate ==
    [id : UUIDs, street : Streets, city : Cities, state : States,
     postal_code : PostalCodes, country : Countries]

\* AddressUpdate: the bodies of PATCH /addresses/{id}.
AddressUpdate ==
    SparseUpdates([street |-> Streets \cup {NULL}, city |-> Cities \cup {NULL},
                   state |-> States \cup {NULL},
                   postal_code |-> PostalCodes \cup {NULL},
                   country |-> Countries \cup {NULL}])

AddressValid(kw) ==
    /\ kw.street # NULL /\ kw.city # NULL /\ kw.state # NULL
    /\ kw.postal_code # NULL /\ kw.country # NULL

\* AddressRead(**kw): the stored shape, with the two timestamps.
AddressRead(kw, t1, t2) ==
    [id |-> kw.id, street |-> kw.street, city |-> kw.city, state |-> kw.state,
     postal_code |-> kw.postal_code, country |-> kw.country,
     created_at |-> IF "created_at" \in DOMAIN kw THEN kw.created_at ELSE t1,
     updated_at |-> IF "updated_at" \in DOMAIN kw THEN kw.updated_at ELSE t2]

(***************************************************************************)
(* Address endpoints of main.py                                            *)
(***************************************************************************)
create_address(address, d) ==
    /\ now + d <= MaxClock
    /\ IF address.id \in DOMAIN addresses
       THEN /\ last' = Response("create_address", address.id, address.id, "Conflict")
            /\ UNCHANGED <<addresses, now>>
       ELSE /\ addresses' = DictSet(addresses, address.id,
                                    AddressRead(address, now, now + d))
            /\ now' = now + d
            /\ last' = Response("create_address", address.id, address.id, "ok")
    /\ UNCHANGED <<persons, clubs, players>>

get_address(address_id) ==
    /\ last' = Response("get_address", address_id, NULL,
                        IF address_id \in DOMAIN addresses THEN "ok" ELSE "NotFound")
    /\ UNCHANGED <<persons, addresses, clubs, players, now>>

update_address(address_id, update) ==
    /\ IF address_id \notin DOMAIN addresses
       THEN /\ last' = Response("update_address", address_id, NULL, "NotFound")
            /\ UNCHANGED addresses
       ELSE LET stored == DictUpdate(addresses[address_id], update)
            IN  IF ~AddressValid(stored)
                THEN /\ last' = Response("update_address", address_id, NULL,
                                         "ValidationError")
                     /\ UNCHANGED addresses
                ELSE /\ addresses' = DictSet(addresses, address_id,
                                             AddressRead(stored, now, now))
                     /\ last' = Response("update_address", address_id, NULL, "ok")
    /\ UNCHANGED <<persons, clubs, players, now>>

(***************************************************************************)
(* models/person.py                                                        *)
(***************************************************************************)
\* An Address embedded in a Person: a value, not a key of `addresses`.
EmbeddedAddress ==
    [id : {"u2"}, street : Streets, city : {"Istanbul"}, state : States,
     postal_code : PostalCodes, country : Countries]

AddressLists == {<<>>} \cup {<<a>> : a \in EmbeddedAddress}

\* PersonCreate: the bodies of POST /persons; the id is not part of it.
PersonCreate ==
    [first_name : FirstNames, last_name : LastNames, uni : Unis,
     email : Emails, phone : Phones, birth_date : Dates \cup {NULL},
     addresses : AddressLists]

\* PersonUpdate: the bodies of PATCH /persons/{id}.
PersonUpdate ==
    SparseUpdates([first_name |-> FirstNames \cup {NULL},
                   last_name |-> LastNames \cup {NULL},
                   uni |-> Unis \cup {NULL}, email |-> Emails \cup {NULL},
                   phone |-> Phones \cup {NULL},
                   birth_date |-> Dates \cup {NULL},
                   addresses |-> AddressLists])

PersonValid(kw) ==
    /\ kw.first_name # NULL /\ kw.last_name # NULL /\ kw.uni # NULL
    /\ kw.email # NULL /\ kw.phone # NULL

\* PersonRead(**kw): id from kw, or uuid4() (new_id) when kw has none; the
\* timestamps as in ClubRead.
PersonRead(kw, new_id, t1, t2) ==
    [id |-> IF "id" \in DOMAIN kw THEN kw.id ELSE new_id,
     first_name |-> kw.first_name, last_name |-> kw.last_name, uni |-> kw.uni,
     email |-> kw.email, phone |-> kw.phone, birth_date |-> kw.birth_date,
     addresses |-> kw.addresses,
     created_at |-> IF "created_at" \in DOMAIN kw THEN kw.created_at ELSE t1,
     updated_at |-> IF "updated_at" \in DOMAIN kw THEN kw.updated_at ELSE t2]

(***************************************************************************)
(* Person endpoints of main.py                                             *)
(***************************************************************************)
\* new_id is what uuid4() returns: an identifier no stored Person has.
create_person(person, new_id, d) ==
    /\ now + d <= MaxClock
    /\ new_id \notin DOMAIN persons
    /\ LET person_read == PersonRead(person, new_id, now, now + d)
       IN  /\ persons' = DictSet(persons, person_read.id, person_read)
           /\ last' = Response("create_person", person_read.id, NULL, "ok")
    /\ now' = now + d
    /\ UNCHANGED <<addresses, clubs, players>>

get_person(person_id) ==
    /\ last' = Response("get_person", person_id, NULL,
                        IF person_id \in DOMAIN persons THEN "ok" ELSE "NotFound")
    /\ UNCHANGED <<persons, addresses, clubs, players, now>>

update_person(person_id, update) ==
    /\ IF person_id \notin DOMAIN persons
       THEN /\ last' = Response("update_person", person_id, NULL, "NotFound")
            /\ UNCHANGED persons
       ELSE LET stored == DictUpdate(persons[person_id], update)
            IN  IF ~PersonValid(stored)
                THEN /\ last' = Response("update_person", person_id, NULL,
                                         "ValidationError")
                     /\ UNCHANGED persons
                ELSE /\ persons' = DictSet(persons, person_id,
                                           PersonRead(stored, person_id, now, now))
                     /\ last' = Response("update_person", person_id, NULL, "ok")
    /\ UNCHANGED <<addresses, clubs, players, now>>

(***************************************************************************)
(* Iteration order, history and requests in flight.                        *)
(*                                                                         *)
(* `order` is the order in which each dict iterates: a Python dict keeps   *)
(* its keys in insertion order, an overwrite keeps the key's place and a   *)
(* deleted key that is inserted again goes to the end.  Only the list      *)
(* handlers and get_club_players iterate a dict.  `seen` is the set of     *)
(* identifiers that have been keys of `clubs` so far.  `calls` holds the   *)
(* requests the worker threads are serving step by step: the handlers are  *)
(* plain `def` functions, which the framework runs on worker threads, and  *)
(* nothing in main.py locks a dict.                                        *)
(***************************************************************************)
\* The worker threads that serve requests side by side.
Threads == {"t1", "t2"}

\* A thread that serves no request.
Idle ==
    [pc |-> "idle", op |-> NULL, id |-> NULL, body |-> EmptyDict,
     stored |-> EmptyDict, status |-> NULL]

\* The elements of a sequence.
Range(s) == {s[i] : i \in DOMAIN s}

\* The iteration order of a dict after a step that left it with the keys D:
\* the keys it kept stay in place, a new key goes to the end.
KeysAfter(keys, D) ==
    LET kept == SelectSeq(keys, LAMBDA k : k \in D)
        new == D \ Range(keys)
    IN  IF new = {} THEN kept ELSE Append(kept, CHOOSE k \in new : TRUE)

\* The step is a whole request, served with no other request in flight, in a
\* service whose requests iterate no dict.
Untracked == UNCHANGED <<order, seen, calls>>

\* The step is a whole request, served with no other request in flight; the
\* dicts keep their insertion order.
Ordered ==
    /\ order' = [persons |-> KeysAfter(order.persons, DOMAIN persons'),
                 addresses |-> KeysAfter(order.addresses, DOMAIN addresses'),
                 clubs |-> KeysAfter(order.clubs, DOMAIN clubs'),
                 players |-> KeysAfter(order.players, DOMAIN players')]
    /\ UNCHANGED <<seen, calls>>

\* As Ordered, and the identifiers of the Clubs stored so far are remembered.
OrderedSeen ==
    /\ order' = [persons |-> KeysAfter(order.persons, DOMAIN persons'),
                 addresses |-> KeysAfter(order.addresses, DOMAIN addresses'),
                 clubs |-> KeysAfter(order.clubs, DOMAIN clubs'),
                 players |-> KeysAfter(order.players, DOMAIN players')]
    /\ seen' = seen \cup DOMAIN clubs'
    /\ UNCHANGED calls

(***************************************************************************)
(* List endpoints of main.py                                               *)
(***************************************************************************)
\* date.isoformat(): YYYY-MM-DD.
isoformat(d) == CASE d = "date(1987, 6, 24)" -> "1987-06-24"

\* str(x) of an Optional[date]: str(None) is the string "None", str(date) is
\* the date's isoformat.
str(x) == IF x = NULL THEN "None" ELSE isoformat(x)

\* The strings a birth_date query parameter carries.
DateStrings == {"1987-06-24", "None"}

\* The query parameters of a list request: each parameter of Dom is absent
\* (no key; the handler's default None) or present with a string.
Filters(Dom) ==
    UNION { Assignments(Dom, S) :
            S \in {T \in SUBSET (DOMAIN Dom) : Cardinality(T) <= MaxFilters} }

ClubFilters == Filters([city |-> Cities, name |-> Names, country |-> Countries])

PlayerFilters ==
    Filters([first_name |-> FirstNames, last_name |-> LastNames,
             position |-> Positions, birth_date |-> DateStrings])

AddressFilters ==
    Filters([street |-> Streets, city |-> Cities, state |-> States,
             postal_code |-> PostalCodes, country |-> Countries])

\* list(d.values()): the records of a dict in its iteration order.
values(d, keys) == [i \in 1..Len(keys) |-> d[keys[i]]]

\* `if f is not None: results = [a for a in results if a.f == f]`
KeepEqual(results, filters, f) ==
    IF f \in DOMAIN filters
    THEN SelectSeq(results, LAMBDA a : a[f] = filters[f])
    ELSE results

\* `if birth_date is not None:
\*      results = [p for p in results if str(p.birth_date) == birth_date]`
KeepBirthDate(results, filters) ==
    IF "birth_date" \in DOMAIN filters
    THEN SelectSeq(results, LAMBDA p : str(p.birth_date) = filters.birth_date)
    ELSE results

\* What a list request gives its caller: the records, in a sequence.
Listing(op, filters, results) ==
    [op |-> op, id |-> NULL, body_id |-> NULL, status |-> "ok",
     filters |-> filters, results |-> results]

list_clubs(filters) ==
    /\ LET r0 == values(clubs, order.clubs)
           r1 == KeepEqual(r0, filters, "city")
           r2 == KeepEqual(r1, filters, "name")
           r3 == KeepEqual(r2, filters, "country")
       IN  last' = Listing("list_clubs", filters, r3)
    /\ UNCHANGED <<persons, addresses, clubs, players, now>>

list_players(filters) ==
    /\ LET r0 == values(players, order.players)
           r1 == KeepEqual(r0, filters, "first_name")
           r2 == KeepEqual(r1, filters, "last_name")
           r3 == KeepEqual(r2, filters, "position")
           r4 == KeepBirthDate(r3, filters)
       IN  last' = Listing("list_players", filters, r4)
    /\ UNCHANGED <<persons, addresses, clubs, players, now>>

list_addresses(filters) ==
    /\ LET r0 == values(addresses, order.addresses)
           r1 == KeepEqual(r0, filters, "street")
           r2 == KeepEqual(r1, filters, "city")
           r3 == KeepEqual(r2, filters, "state")
           r4 == KeepEqual(r3, filters, "postal_code")
           r5 == KeepEqual(r4, filters, "country")
       IN  last' = Listing("list_addresses", filters, r5)
    /\ UNCHANGED <<persons, addresses, clubs, players, now>>

\* The countries of the addresses a listed Person carries.
ResidenceCountries == {"Turkey", "Spain"}

\* The addresses embedded in the Persons that list_persons searches.
Residences ==
    [id : {"u2"}, street : Streets, city : Cities, state : States,
     postal_code : PostalCodes, country : ResidenceCountries]

\* A Person's addresses: none, one, or two different ones.
ResidenceLists ==
    {<<>>} \cup {<<a>> : a \in Residences}
           \cup {l \in {<<a, b>> : a \in Residences, b \in Residences} : l[1] # l[2]}

\* The bodies of POST /persons that carry such addresses.
ResidentCreate ==
    [first_name : FirstNames, last_name : LastNames, uni : Unis,
     email : Emails, phone : Phones, birth_date : {NULL},
     addresses : ResidenceLists]

\* The bodies of PATCH /persons/{id} that supply the addresses.
ResidentUpdate == {[addresses |-> l] : l \in ResidenceLists}

\* The query parameters of list_persons: a direct field (with a name no
\* Person has), and the city and the country of an address.
PersonFilters ==
    Filters([first_name |-> FirstNames \cup LastNames, city |-> Cities,
             country |-> ResidenceCountries])

\* `any(addr.f == v for addr in p.addresses)`
AnyAddress(p, f, v) == \E i \in DOMAIN p.addresses : p.addresses[i][f] = v

\* Mutant of KeepAnyAddress: only the Person's first address is looked at.
KeepAnyAddress_first(results, filters, f) ==
    IF f \in DOMAIN filters
    THEN SelectSeq(results, LAMBDA p : p.addresses # <<>>
                                        /\ p.addresses[1][f] = filters[f])
    ELSE results

\* `if city is not None:
\*      results = [p for p in results if any(addr.city == city for addr in p.addresses)]`
KeepAnyAddress(results, filters, f) ==
    IF f \in DOMAIN filters
    THEN SelectSeq(results, LAMBDA p : AnyAddress(p, f, filters[f]))
    ELSE results

\* The results of list_persons.
persons_listed(filters) ==
    LET r0 == values(persons, order.persons)
        r1 == KeepEqual(r0, filters, "uni")
        r2 == KeepEqual(r1, filters, "first_name")
        r3 == KeepEqual(r2, filters, "last_name")
        r4 == KeepEqual(r3, filters, "email")
        r5 == KeepEqual(r4, filters, "phone")
        r6 == KeepBirthDate(r5, filters)
        r7 == KeepAnyAddress(r6, filters, "city")
    IN  KeepAnyAddress(r7, filters, "country")

list_persons(filters) ==
    /\ last' = Listing("list_persons", filters, persons_listed(filters))
    /\ UNCHANGED <<persons, addresses, clubs, players, now>>

\* What get_club_players gives its caller when the Club is stored.
Roster(club_id, results) ==
    [op |-> "get_club_players", id |-> club_id, body_id |-> NULL,
     status |-> "ok", filters |-> EmptyDict, results |-> results]

\* `[player for player in players.values() if player.club_id == club_id]`
club_players(club_id) ==
    SelectSeq(values(players, order.players), LAMBDA player : player.club_id = club_id)

\* Mutant of get_club_players: no lookup of the Club.
get_club_players_unchecked(club_id) ==
    /\ last' = Roster(club_id, club_players(club_id))
    /\ UNCHANGED <<persons, addresses, clubs, players, now>>

get_club_players(club_id) ==
    /\ IF club_id \notin DOMAIN clubs
       THEN last' = Response("get_club_players", club_id, NULL, "NotFound")
       ELSE last' = Roster(club_id, club_players(club_id))
    /\ UNCHANGED <<persons, addresses, clubs, players, now>>

(***************************************************************************)
(* The handlers of main.py, statement by statement, on worker threads.     *)
(*                                                                         *)
(* A thread's request is [pc, op, id, body, stored, status]: the statement *)
(* it is at, the handler, the identifier and the body it was called with,  *)
(* the handler's local `stored`, and, once it is done, its outcome.  A     *)
(* thread can be preempted between any two statements; one statement on a  *)
(* dict (a membership test, a read, an assignment, a del) is atomic.       *)
(***************************************************************************)
\* Thread t is at statement pc of handler op.
At(t, op, pc) == calls[t].op = op /\ calls[t].pc = pc

\* Thread t moves on to statement pc.
Goto(t, pc) == calls' = [calls EXCEPT ![t].pc = pc]

\* Thread t's handler returns or raises: its request ends with status.
Finish(t, status) ==
    calls' = [calls EXCEPT ![t].pc = "done", ![t].status = status,
                           ![t].stored = EmptyDict]

\* What a thread's step leaves alone besides the dicts.
ThreadFrame == UNCHANGED <<persons, addresses, now, last, order, seen>>

\* Thread t takes a request.  The outcomes of the requests that are done are
\* collected before another request is taken, so two requests that are done
\* together have run side by side.
Begin(t, op, id, body) ==
    /\ calls[t].pc = "idle"
    /\ \A u \in Threads : calls[u].pc # "done"
    /\ calls' = [calls EXCEPT ![t] =
                    [pc |-> "check", op |-> op, id |-> id, body |-> body,
                     stored |-> EmptyDict, status |-> NULL]]
    /\ UNCHANGED <<clubs, players>>
    /\ ThreadFrame

\* The outcome of thread t's request is collected.
Retire(t) ==
    /\ calls[t].pc = "done"
    /\ calls' = [calls EXCEPT ![t] = Idle]
    /\ UNCHANGED <<clubs, players>>
    /\ ThreadFrame

\* create_club: `if club.id in clubs: raise HTTPException(400)`
create_club_check(t) ==
    /\ At(t, "create_club", "check")
    /\ IF calls[t].id \in DOMAIN clubs THEN Finish(t, "Conflict") ELSE Goto(t, "insert")
    /\ UNCHANGED <<clubs, players>>
    /\ ThreadFrame

\* create_club: `clubs[club.id] = ClubRead(**club.model_dump())`
create_club_insert(t) ==
    /\ At(t, "create_club", "insert")
    /\ clubs' = DictSet(clubs, calls[t].id, ClubRead(calls[t].body, now, now))
    /\ Goto(t, "return")
    /\ UNCHANGED players
    /\ ThreadFrame

\* create_club: `return clubs[club.id]`
create_club_return(t) ==
    /\ At(t, "create_club", "return")
    /\ Finish(t, IF calls[t].id \in DOMAIN clubs THEN "ok" ELSE "KeyError")
    /\ UNCHANGED <<clubs, players>>
    /\ ThreadFrame

\* delete_club: `if club_id not in clubs: raise HTTPException(404)`
delete_club_check(t) ==
    /\ At(t, "delete_club", "check")
    /\ IF calls[t].id \notin DOMAIN clubs THEN Finish(t, "NotFound") ELSE Goto(t, "del")
    /\ UNCHANGED <<clubs, players>>
    /\ ThreadFrame

\* delete_club: `del clubs[club_id]`
delete_club_del(t) ==
    /\ At(t, "delete_club", "del")
    /\ IF calls[t].id \in DOMAIN clubs
       THEN clubs' = DictDel(clubs, calls[t].id) /\ Finish(t, "ok")
       ELSE UNCHANGED clubs /\ Finish(t, "KeyError")
    /\ UNCHANGED players
    /\ ThreadFrame

\* update_club: `if club_id not in clubs: raise HTTPException(404)`
update_club_check(t) ==
    /\ At(t, "update_club", "check")
    /\ IF calls[t].id \notin DOMAIN clubs THEN Finish(t, "NotFound") ELSE Goto(t, "read")
    /\ UNCHANGED <<clubs, players>>
    /\ ThreadFrame

\* update_club: `stored = clubs[club_id].model_dump()` and
\* `stored.update(update.model_dump(exclude_unset=True))`
update_club_read(t) ==
    /\ At(t, "update_club", "read")
    /\ IF calls[t].id \in DOMAIN clubs
       THEN calls' = [calls EXCEPT
                        ![t].stored = DictUpdate(clubs[calls[t].id], calls[t].body),
                        ![t].pc = "write"]
       ELSE Finish(t, "KeyError")
    /\ UNCHANGED <<clubs, players>>
    /\ ThreadFrame

\* update_club: `clubs[club_id] = ClubRead(**stored)`
update_club_write(t) ==
    /\ At(t, "update_club", "write")
    /\ IF ~ClubValid(calls[t].stored)
       THEN UNCHANGED clubs /\ Finish(t, "ValidationError")
       ELSE /\ clubs' = DictSet(clubs, calls[t].id, ClubRead(calls[t].stored, now, now))
            /\ calls' = [calls EXCEPT ![t].stored = EmptyDict, ![t].pc = "return"]
    /\ UNCHANGED players
    /\ ThreadFrame

\* update_club: `return clubs[club_id]`
update_club_return(t) ==
    /\ At(t, "update_club", "return")
    /\ Finish(t, IF calls[t].id \in DOMAIN clubs THEN "ok" ELSE "KeyError")
    /\ UNCHANGED <<clubs, players>>
    /\ ThreadFrame

\* create_player: `if player.id in players: raise HTTPException(400)`
create_player_check(t) ==
    /\ At(t, "create_player", "check")
    /\ IF calls[t].id \in DOMAIN players
       THEN Finish(t, "Conflict")
       ELSE Goto(t, "reference")
    /\ UNCHANGED <<clubs, players>>
    /\ ThreadFrame

\* create_player: `if player.club_id and not player.club_id in clubs:
\*                     raise HTTPException(400)`
create_player_reference(t) ==
    /\ At(t, "create_player", "reference")
    /\ IF ClubMissing(calls[t].body)
       THEN Finish(t, "InvalidReference")
       ELSE Goto(t, "insert")
    /\ UNCHANGED <<clubs, players>>
    /\ ThreadFrame

\* create_player: `players[player.id] = PlayerRead(**player.model_dump())`
create_player_insert(t) ==
    /\ At(t, "create_player", "insert")
    /\ players' = DictSet(players, calls[t].id, PlayerRead(calls[t].body, now, now))
    /\ Goto(t, "return")
    /\ UNCHANGED clubs
    /\ ThreadFrame

\* create_player: `return players[player.id]`
create_player_return(t) ==
    /\ At(t, "create_player", "return")
    /\ Finish(t, IF calls[t].id \in DOMAIN players THEN "ok" ELSE "KeyError")
    /\ UNCHANGED <<clubs, players>>
    /\ ThreadFrame

\* update_player: `if player_id not in players: raise HTTPException(404)`
update_player_check(t) ==
    /\ At(t, "update_player", "check")
    /\ IF calls[t].id \notin DOMAIN players
       THEN Finish(t, "NotFound")
       ELSE Goto(t, "read")
    /\ UNCHANGED <<clubs, players>>
    /\ ThreadFrame

\* update_player: `stored = players[player_id].model_dump()` and
\* `stored.update(update.model_dump(exclude_unset=True))`
update_player_read(t) ==
    /\ At(t, "update_player", "read")
    /\ IF calls[t].id \in DOMAIN players
       THEN calls' = [calls EXCEPT
                        ![t].stored = DictUpdate(players[calls[t].id], calls[t].body),
                        ![t].pc = "write"]
       ELSE Finish(t, "KeyError")
    /\ UNCHANGED <<clubs, players>>
    /\ ThreadFrame

\* update_player: `players[player_id] = PlayerRead(**stored)`
update_player_write(t) ==
    /\ At(t, "update_player", "write")
    /\ IF ~PlayerValid(calls[t].stored)
       THEN UNCHANGED players /\ Finish(t, "ValidationError")
       ELSE /\ players' = DictSet(players, calls[t].id,
                                  PlayerRead(calls[t].stored, now, now))
            /\ calls' = [calls EXCEPT ![t].stored = EmptyDict, ![t].pc = "return"]
    /\ UNCHANGED clubs
    /\ ThreadFrame

\* update_player: `return players[player_id]`
update_player_return(t) ==
    /\ At(t, "update_player", "return")
    /\ Finish(t, IF calls[t].id \in DOMAIN players THEN "ok" ELSE "KeyError")
    /\ UNCHANGED <<clubs, players>>
    /\ ThreadFrame

(***************************************************************************)
(* The clock                                                               *)
(***************************************************************************)
\* Time passes between two requests.
Tick ==
    /\ now < MaxClock
    /\ now' = now + 1
    /\ last' = Response("tick", NULL, NULL, "ok")
    /\ UNCHANGED <<persons, addresses, clubs, players>>

(***************************************************************************)
(* The store after module import: four empty dicts.                        *)
(***************************************************************************)
Init ==
    /\ persons = EmptyDict
    /\ addresses = EmptyDict
    /\ clubs = EmptyDict
    /\ players = EmptyDict
    /\ now = 0
    /\ last = Response("init", NULL, NULL, "ok")
    /\ order = [persons |-> <<>>, addresses |-> <<>>, clubs |-> <<>>, players |-> <<>>]
    /\ seen = {}
    /\ calls = [t \in Threads |-> Idle]

\* Requests on the Club and Player repositories, the clock drifting by d within
\* a constructor call.
ClubPlayerRequest(D) ==
    \/ \E club \in ClubCreate, d \in D : create_club(club, d) /\ Untracked
    \/ \E id \in UUIDs : get_club(id) /\ Untracked
    \/ \E id \in UUIDs, update \in ClubUpdate : update_club(id, update) /\ Untracked
    \/ \E id \in UUIDs : delete_club(id) /\ Untracked
    \/ \E id \in UUIDs, club \in ClubCreate, d \in D :
          put_club(id, club, d) /\ Untracked
    \/ \E player \in PlayerCreate, d \in D :
          player.id \in PlayerIds /\ create_player(player, d) /\ Untracked
    \/ \E id \in PlayerIds : get_player(id) /\ Untracked
    \/ \E id \in PlayerIds, update \in PlayerUpdate :
          update_player(id, update) /\ Untracked
    \/ \E id \in PlayerIds : delete_player(id) /\ Untracked
    \/ \E id \in PlayerIds, player \in PlayerCreate, d \in D :
          put_player(id, player, d) /\ Untracked

\* Requests on the Address and Person repositories.
AddressPersonRequest(D) ==
    \/ \E address \in AddressCreate, d \in D :
          address.id \in AddressIds /\ create_address(address, d) /\ Untracked
    \/ \E id \in AddressIds : get_address(id) /\ Untracked
    \/ \E id \in AddressIds, update \in AddressUpdate :
          update_address(id, update) /\ Untracked
    \/ \E person \in PersonCreate, id \in PersonIds, d \in D :
          create_person(person, id, d) /\ Untracked
    \/ \E id \in PersonIds : get_person(id) /\ Untracked
    \/ \E id \in PersonIds, update \in PersonUpdate :
          update_person(id, update) /\ Untracked

\* The Club and Player service, with time passing between and within requests.
Next ==
    \/ ClubPlayerRequest(Drift)
    \/ Tick /\ Untracked

Spec == Init /\ [][Next]_vars

\* The Club and Player repositories, every request served within one reading
\* of the clock.
NextData == ClubPlayerRequest({0})

SpecData == Init /\ [][NextData]_vars

\* All four repositories, every request served within one reading of the clock.
NextStore ==
    \/ ClubPlayerRequest({0})
    \/ AddressPersonRequest({0})

SpecStore == Init /\ [][NextStore]_vars

\* The Club, Player and Address collections and their list requests, every
\* request served within one reading of the clock.
NextList ==
    \/ \E club \in ClubCreate : create_club(club, 0) /\ Ordered
    \/ \E id \in UUIDs, club \in ClubCreate : put_club(id, club, 0) /\ Ordered
    \/ \E id \in UUIDs : delete_club(id) /\ Ordered
    \/ \E player \in PlayerCreate :
          player.club_id = NULL /\ create_player(player, 0) /\ Ordered
    \/ \E id \in UUIDs : delete_player(id) /\ Ordered
    \/ \E address \in AddressCreate :
          address.id \in AddressIds /\ create_address(address, 0) /\ Ordered
    \/ \E filters \in ClubFilters : list_clubs(filters) /\ Ordered
    \/ \E filters \in PlayerFilters : list_players(filters) /\ Ordered
    \/ \E filters \in AddressFilters : list_addresses(filters) /\ Ordered

SpecList == Init /\ [][NextList]_vars

\* The Person collection and its list requests.
NextPersons ==
    \/ \E person \in ResidentCreate, id \in UUIDs :
          create_person(person, id, 0) /\ Ordered
    \/ \E id \in UUIDs, update \in ResidentUpdate :
          update_person(id, update) /\ Ordered
    \/ \E filters \in PersonFilters : list_persons(filters) /\ Ordered

SpecPersons == Init /\ [][NextPersons]_vars

\* The PATCH bodies that supply the club reference alone, or nothing.
ClubIdUpdate == {update \in PlayerUpdate : DOMAIN update \subseteq {"club_id"}}

\* Clubs and the Players that refer to them.
NextRoster ==
    \/ \E club \in ClubCreate : create_club(club, 0) /\ OrderedSeen
    \/ \E id \in UUIDs : delete_club(id) /\ OrderedSeen
    \/ \E player \in PlayerCreate :
          player.birth_date = NULL /\ create_player(player, 0) /\ OrderedSeen
    \/ \E id \in UUIDs, update \in ClubIdUpdate :
          update_player(id, update) /\ OrderedSeen
    \/ \E id \in UUIDs, player \in PlayerCreate :
          player.birth_date = NULL /\ put_player(id, player, 0) /\ OrderedSeen
    \/ \E id \in UUIDs : delete_player(id) /\ OrderedSeen
    \/ \E id \in UUIDs : get_club_players(id) /\ OrderedSeen

SpecRoster == Init /\ [][NextRoster]_vars

\* The list requests that carry a birth_date, or no parameter.
BirthFilters == Filters([birth_date |-> DateStrings])

\* The PATCH bodies that supply the birth date alone, or nothing.
BirthDateUpdate == {update \in PlayerUpdate : DOMAIN update \subseteq {"birth_date"}}

\* Players and Persons with and without a birth date, and the list requests
\* that filter by it.
NextDates ==
    \/ \E player \in PlayerCreate :
          player.club_id = NULL /\ create_player(player, 0) /\ Ordered
    \/ \E id \in UUIDs, update \in BirthDateUpdate :
          update_player(id, update) /\ Ordered
    \/ \E id \in UUIDs : delete_player(id) /\ Ordered
    \/ \E person \in PersonCreate, id \in PersonIds :
          create_person(person, id, 0) /\ Ordered
    \/ \E filters \in BirthFilters : list_players(filters) /\ Ordered
    \/ \E filters \in BirthFilters : list_persons(filters) /\ Ordered

SpecDates == Init /\ [][NextDates]_vars

\* The identifier the racing requests are about.
RacedIds == {"u1"}

\* The PATCH bodies that supply one field, with a value.
OneField(updates) ==
    {update \in updates : /\ Cardinality(DOMAIN update) = 1
                          /\ \A f \in DOMAIN update : update[f] # NULL}

\* The requests a worker thread takes.
TakeRequest(t) ==
    \/ \E club \in ClubCreate :
          club.id \in RacedIds /\ Begin(t, "create_club", club.id, club)
    \/ \E id \in RacedIds : Begin(t, "delete_club", id, EmptyDict)
    \/ \E id \in RacedIds, update \in OneField(ClubUpdate) :
          Begin(t, "update_club", id, update)
    \/ \E player \in PlayerCreate :
          /\ player.id \in RacedIds
          /\ player.birth_date = NULL
          /\ player.club_id \in RacedIds \cup {NULL}
          /\ Begin(t, "create_player", player.id, player)
    \/ \E id \in RacedIds, update \in OneField(PlayerUpdate) :
          /\ DOMAIN update \subseteq {"birth_date", "club_id"}
          /\ Begin(t, "update_player", id, update)

\* Two worker threads serving Club and Player requests side by side.
NextThreads ==
    \E t \in Threads :
        \/ TakeRequest(t)
        \/ create_club_check(t)
        \/ create_club_insert(t)
        \/ create_club_return(t)
        \/ delete_club_check(t)
        \/ delete_club_del(t)
        \/ update_club_check(t)
        \/ update_club_read(t)
        \/ update_club_write(t)
        \/ update_club_return(t)
        \/ create_player_check(t)
        \/ create_player_reference(t)
        \/ create_player_insert(t)
        \/ create_player_return(t)
        \/ update_player_check(t)
        \/ update_player_read(t)
        \/ update_player_write(t)
        \/ update_player_return(t)
        \/ Retire(t)

SpecThreads == Init /\ [][NextThreads]_vars

(***************************************************************************)
(* Vocabulary of the properties.                                           *)
(***************************************************************************)
\* The fields a caller supplies, apart from the identifier.
ClubData == {"city", "name", "country"}
PlayerData == {"first_name", "last_name", "position", "birth_date", "club_id"}
AddressData == {"street", "city", "state", "postal_code", "country"}

\* rec carries the values of payload in the fields F.
Carries(rec, payload, F) == \A f \in F : rec[f] = payload[f]

\* after is before with exactly one entry added, under key k.
AddedOnly(before, after, k) ==
    /\ k \notin DOMAIN before
    /\ DOMAIN after = (DOMAIN before) \cup {k}
    /\ \A x \in DOMAIN before : after[x] = before[x]

\* after is before with exactly the entry under key k removed.
RemovedOnly(before, after, k) ==
    /\ k \in DOMAIN before
    /\ DOMAIN after = (DOMAIN before) \ {k}
    /\ \A x \in DOMAIN after : after[x] = before[x]

\* after is before except, at most, for the entry under the existing key k.
ChangedOnly(before, after, k) ==
    /\ k \in DOMAIN before
    /\ DOMAIN after = DOMAIN before
    /\ \A x \in (DOMAIN before) \ {k} : after[x] = before[x]

\* This step changes no repository.
StoreUnchanged == UNCHANGED <<persons, addresses, clubs, players>>

\* This step is a request `op` that ended with `status`.
Ended(op, status) == last'.op = op /\ last'.status = status

(***************************************************************************)
(* C1: create and the identifier of the payload.                           *)
(***************************************************************************)
\* create with an identifier that is already a key: Conflict, nothing changes.
C1_ExistingKey ==
    /\ (last'.op = "create_club" /\ last'.id \in DOMAIN clubs)
          => (last'.status = "Conflict" /\ StoreUnchanged)
    /\ (last'.op = "create_player" /\ last'.id \in DOMAIN players)
          => (last'.status = "Conflict" /\ StoreUnchanged)
    /\ (last'.op = "create_address" /\ last'.id \in DOMAIN addresses)
          => (last'.status = "Conflict" /\ StoreUnchanged)

\* create_club with an identifier that is no key: stored under that identifier.
C1_NewClub ==
    last'.op = "create_club" =>
        \A club \in ClubCreate, d \in Drift :
            (create_club(club, d) /\ club.id \notin DOMAIN clubs) =>
                /\ last'.status = "ok"
                /\ AddedOnly(clubs, clubs', club.id)
                /\ clubs'[club.id].id = club.id
                /\ Carries(clubs'[club.id], club, ClubData)

\* create_address with an identifier that is no key: stored under that identifier.
C1_NewAddress ==
    last'.op = "create_address" =>
        \A address \in AddressCreate, d \in Drift :
            (create_address(address, d) /\ address.id \notin DOMAIN addresses) =>
                /\ last'.status = "ok"
                /\ AddedOnly(addresses, addresses', address.id)
                /\ addresses'[address.id].id = address.id
                /\ Carries(addresses'[address.id], address, AddressData)

\* A Player stored by this step under the identifier of its payload.
C1_PlayerStored(player) ==
    /\ last'.status = "ok"
    /\ AddedOnly(players, players', player.id)
    /\ players'[player.id].id = player.id
    /\ Carries(players'[player.id], player, PlayerData)

\* create_player with an identifier that is no key succeeds, whatever the payload.
C1_NewPlayerAlways ==
    last'.op = "create_player" =>
        \A player \in PlayerCreate, d \in Drift :
            (create_player(player, d) /\ player.id \notin DOMAIN players) =>
                C1_PlayerStored(player)

\* create_player with an identifier that is no key succeeds when the payload's
\* club reference is null or resolves, and fails with InvalidReference otherwise.
C1_NewPlayerResolved ==
    last'.op = "create_player" =>
        \A player \in PlayerCreate, d \in Drift :
            (create_player(player, d) /\ player.id \notin DOMAIN players) =>
                IF player.club_id = NULL \/ player.club_id \in DOMAIN clubs
                THEN C1_PlayerStored(player)
                ELSE last'.status = "InvalidReference" /\ StoreUnchanged

\* C1 as claimed: in the Club, Player and Address repositories, create with an
\* identifier that is already a key fails with Conflict and changes nothing, and
\* create with an identifier that is not a key succeeds and stores the record
\* under exactly that identifier.
C1_Original ==
    [][C1_ExistingKey /\ C1_NewClub /\ C1_NewAddress /\ C1_NewPlayerAlways]_vars

\* C1 as amended: as claimed for Club and Address; for Player, create with an
\* identifier that is not a key succeeds and stores the record under that
\* identifier when the payload's club_id is null or a key of the Club
\* repository, and otherwise fails with InvalidReference and changes nothing.
C1_Amended ==
    [][C1_ExistingKey /\ C1_NewClub /\ C1_NewAddress /\ C1_NewPlayerResolved]_vars

\* A create was refused with Conflict while another record of the same
\* repository was stored, and a create with the caller's identifier succeeded.
C1_Witness ==
    /\ last.op = "create_club"
    /\ last.status = "Conflict"
    /\ DOMAIN clubs = UUIDs
    /\ DOMAIN addresses = AddressIds
    /\ DOMAIN players = PlayerIds

(***************************************************************************)
(* C2: create_player and the club reference.                               *)
(***************************************************************************)
\* The payload's club reference is non-null and names no stored Club.
Unresolved(player) == player.club_id # NULL /\ player.club_id \notin DOMAIN clubs

\* What C2 says of a create_player(player) step.
C2_Outcome(player) ==
    /\ Unresolved(player) =>
          /\ last'.status = "InvalidReference"
          /\ players' = players
          /\ clubs' = clubs
    /\ player.club_id = NULL =>
          /\ last'.status = "ok"
          /\ player.id \in DOMAIN players'
          /\ players'[player.id].club_id = NULL
          /\ clubs' = clubs

\* C2 as claimed: create_player with a non-null club_id that is not a key of
\* the Club repository fails with InvalidReference and changes neither the
\* Player nor the Club repository; with a null club_id it succeeds whatever the
\* Club repository holds.
C2_Original ==
    [][last'.op = "create_player" =>
          \A player \in PlayerCreate, d \in Drift :
              create_player(player, d) => C2_Outcome(player)]_vars

\* C2 as amended: the same, for a create_player whose identifier is not
\* already a key of the Player repository (when it is, the request fails with
\* Conflict whatever its club_id).
C2_Amended ==
    [][last'.op = "create_player" =>
          \A player \in PlayerCreate, d \in Drift :
              (create_player(player, d) /\ player.id \notin DOMAIN players)
                  => C2_Outcome(player)]_vars

\* A create_player was refused for its club reference while a Club was stored.
C2_Witness ==
    /\ last.op = "create_player"
    /\ last.status = "InvalidReference"
    /\ DOMAIN clubs # {}
    /\ DOMAIN clubs # UUIDs

(***************************************************************************)
(* C3: put_player and the club reference.                                  *)
(***************************************************************************)
\* C3: replace (PUT) of an existing Player with a payload whose club_id is
\* non-null and not a key of the Club repository fails with InvalidReference
\* and leaves the stored Player unchanged.
C3_Claim ==
    [][last'.op = "put_player" =>
          \A id \in UUIDs, player \in PlayerCreate, d \in Drift :
              (put_player(id, player, d) /\ id \in DOMAIN players /\ Unresolved(player))
                  => (last'.status = "InvalidReference" /\ players' = players)]_vars

(***************************************************************************)
(* C4: patch merges the sparse update into the stored record.              *)
(***************************************************************************)
\* after is before with the supplied fields set and the fields of F that the
\* update omits, and the identifier, kept.
Merged(before, after, update, F) ==
    /\ \A f \in DOMAIN update : after[f] = update[f]
    /\ \A f \in (F \cup {"id"}) \ DOMAIN update : after[f] = before[f]

\* C4: a successful patch of a Club or Player stores (and returns) a record in
\* which each field the update supplies has the supplied value, a supplied
\* null included, and every omitted data field and the identifier have the
\* value they had before.
C4_PatchMerges ==
    [][/\ Ended("update_club", "ok") =>
             \A update \in ClubUpdate :
                 update_club(last'.id, update) =>
                     /\ ChangedOnly(clubs, clubs', last'.id)
                     /\ Merged(clubs[last'.id], clubs'[last'.id], update, ClubData)
       /\ Ended("update_player", "ok") =>
             \A update \in PlayerUpdate :
                 update_player(last'.id, update) =>
                     /\ ChangedOnly(players, players', last'.id)
                     /\ Merged(players[last'.id], players'[last'.id], update, PlayerData)
      ]_vars

\* A patch has succeeded on a Player that now has a null birth_date and a club.
C4_Witness ==
    /\ last.op = "update_player"
    /\ last.status = "ok"
    /\ players[last.id].birth_date = NULL
    /\ players[last.id].club_id # NULL

(***************************************************************************)
(* C5: patch and updated_at.                                               *)
(***************************************************************************)
\* What C5 says of a patched record: updated_at is the clock's reading, hence
\* later than before when the clock has advanced since the record was written.
C5_Refreshed(before, after) ==
    /\ after.updated_at = now'
    /\ before.updated_at < now => after.updated_at > before.updated_at

\* C5: every successful patch of a stored record refreshes updated_at to the
\* clock reading taken during the patch.
C5_Claim ==
    [][/\ Ended("update_club", "ok") =>
             C5_Refreshed(clubs[last'.id], clubs'[last'.id])
       /\ Ended("update_player", "ok") =>
             C5_Refreshed(players[last'.id], players'[last'.id])]_vars

(***************************************************************************)
(* C6: created_at is set once.                                             *)
(***************************************************************************)
\* C6: for every successful patch and replace of an existing Club or Player,
\* the record's created_at after the operation is its created_at before.
C6_Claim ==
    [][/\ (last'.op \in {"update_club", "put_club"} /\ last'.status = "ok") =>
             clubs'[last'.id].created_at = clubs[last'.id].created_at
       /\ (last'.op \in {"update_player", "put_player"} /\ last'.status = "ok") =>
             players'[last'.id].created_at = players[last'.id].created_at]_vars

(***************************************************************************)
(* C7: a record's id is the key it is stored under.                        *)
(***************************************************************************)
\* Every record of repo has the id it is stored under.
KeyedById(repo) == \A k \in DOMAIN repo : repo[k].id = k

\* C7: every record stored in the Club and Player repositories has an id equal
\* to its key; a replace stores the new record under the path identifier, with
\* that id, and adds or modifies no other entry, the one under the payload's
\* identifier included.
C7_IdIsKey ==
    [][/\ KeyedById(clubs')
       /\ KeyedById(players')
       /\ Ended("put_club", "ok") =>
             /\ ChangedOnly(clubs, clubs', last'.id)
             /\ clubs'[last'.id].id = last'.id
       /\ Ended("put_player", "ok") =>
             /\ ChangedOnly(players, players', last'.id)
             /\ players'[last'.id].id = last'.id]_vars

\* A replace has succeeded whose payload carried the identifier of another
\* stored record.
C7_Witness ==
    /\ last.op = "put_club"
    /\ last.status = "ok"
    /\ last.body_id # last.id
    /\ last.body_id \in DOMAIN clubs

(***************************************************************************)
(* C8: deleting a Club does not cascade.                                   *)
(***************************************************************************)
\* Some stored Player references the Club c.
Referenced(c) == \E p \in DOMAIN players : players[p].club_id = c

\* C8: deleting a stored Club that stored Players reference succeeds, removes
\* only that Club and leaves the Player repository unchanged; a get of such a
\* Player that follows succeeds and returns the same record, whose club_id
\* names the Club that is now absent.
C8_NoCascade ==
    [][/\ (last'.op = "delete_club" /\ last'.id \in DOMAIN clubs /\ Referenced(last'.id)) =>
             /\ last'.status = "ok"
             /\ RemovedOnly(clubs, clubs', last'.id)
             /\ players' = players
       /\ (/\ last.op = "delete_club" /\ last.status = "ok"
           /\ last'.op = "get_player" /\ last'.id \in DOMAIN players
           /\ players[last'.id].club_id = last.id) =>
             /\ last'.status = "ok"
             /\ players' = players
             /\ players'[last'.id].club_id \notin DOMAIN clubs']_vars

\* A Club that a stored Player references has just been deleted.
C8_Witness ==
    /\ last.op = "delete_club"
    /\ last.status = "ok"
    /\ Referenced(last.id)

(***************************************************************************)
(* C9: a failed request changes nothing.                                   *)
(***************************************************************************)
\* A request that does not succeed changes no repository.
C9_FailureChangesNothing == last'.status # "ok" => StoreUnchanged

\* get, patch, replace and delete on an identifier that is no key: NotFound.
C9_NotFound ==
    /\ (last'.op \in {"get_club", "update_club", "put_club", "delete_club"}
            /\ last'.id \notin DOMAIN clubs) => last'.status = "NotFound"
    /\ (last'.op \in {"get_player", "update_player", "put_player", "delete_player"}
            /\ last'.id \notin DOMAIN players) => last'.status = "NotFound"
    /\ (last'.op \in {"get_address", "update_address"}
            /\ last'.id \notin DOMAIN addresses) => last'.status = "NotFound"
    /\ (last'.op \in {"get_person", "update_person"}
            /\ last'.id \notin DOMAIN persons) => last'.status = "NotFound"

\* create of a new Player with an unresolved club reference: InvalidReference.
C9_CreateReference ==
    last'.op = "create_player" =>
        \A player \in PlayerCreate, d \in Drift :
            (create_player(player, d) /\ player.id \notin DOMAIN players
                 /\ Unresolved(player)) => last'.status = "InvalidReference"

\* replace of a stored Player with an unresolved club reference: InvalidReference.
C9_ReplaceReference ==
    last'.op = "put_player" =>
        \A id \in UUIDs, player \in PlayerCreate, d \in Drift :
            (put_player(id, player, d) /\ id \in DOMAIN players
                 /\ Unresolved(player)) => last'.status = "InvalidReference"

\* C9: every request that fails leaves all four repositories as they were: get,
\* patch, replace and delete on an identifier that is no key fail with
\* NotFound, create on an existing identifier fails with Conflict, a Player
\* create or replace with an unresolved club reference fails with
\* InvalidReference, and in each case no record is added, removed or modified.
C9_Claim ==
    [][/\ C9_FailureChangesNothing
       /\ C9_NotFound
       /\ C1_ExistingKey
       /\ C9_CreateReference
       /\ C9_ReplaceReference]_vars

\* C9 without the replace of a Player: the part of it the handlers keep.
C9_ExceptReplace ==
    [][/\ C9_FailureChangesNothing
       /\ C9_NotFound
       /\ C1_ExistingKey
       /\ C9_CreateReference]_vars

(***************************************************************************)
(* C10: delete frees the identifier.                                       *)
(***************************************************************************)
\* A successful delete leaves the identifier out of the repository.
C10_Freed ==
    /\ Ended("delete_club", "ok") => last'.id \notin DOMAIN clubs'
    /\ Ended("delete_player", "ok") => last'.id \notin DOMAIN players'

\* This step is a request on the identifier the step before it deleted.
AfterDelete(op) == last.op = op /\ last.status = "ok" /\ last'.id = last.id

\* get, patch, replace and a second delete after the delete: NotFound.
C10_Gone ==
    /\ (AfterDelete("delete_club")
            /\ last'.op \in {"get_club", "update_club", "put_club", "delete_club"})
          => last'.status = "NotFound"
    /\ (AfterDelete("delete_player")
            /\ last'.op \in {"get_player", "update_player", "put_player", "delete_player"})
          => last'.status = "NotFound"

\* create_club after the delete: a new record, from the payload and the clock.
C10_ClubAgain ==
    (AfterDelete("delete_club") /\ last'.op = "create_club") =>
        \A club \in ClubCreate, d \in Drift :
            create_club(club, d) =>
                /\ last'.status = "ok"
                /\ Carries(clubs'[club.id], club, ClubData)
                /\ clubs'[club.id].created_at = now
                /\ clubs'[club.id].updated_at = now'

\* The Player a create after the delete stores.
C10_PlayerStored(player) ==
    /\ last'.status = "ok"
    /\ Carries(players'[player.id], player, PlayerData)
    /\ players'[player.id].created_at = now
    /\ players'[player.id].updated_at = now'

\* create_player after the delete succeeds, whatever the payload.
C10_PlayerAgainAlways ==
    (AfterDelete("delete_player") /\ last'.op = "create_player") =>
        \A player \in PlayerCreate, d \in Drift :
            create_player(player, d) => C10_PlayerStored(player)

\* create_player after the delete never fails with Conflict, and succeeds when
\* the payload's club reference is null or resolves.
C10_PlayerAgainResolved ==
    (AfterDelete("delete_player") /\ last'.op = "create_player") =>
        \A player \in PlayerCreate, d \in Drift :
            create_player(player, d) =>
                IF Unresolved(player)
                THEN last'.status = "InvalidReference" /\ StoreUnchanged
                ELSE C10_PlayerStored(player)

\* C10 as claimed: after a successful delete(id) on the Club or Player
\* repository the identifier is no key (get, patch, replace and a second delete
\* fail with NotFound), and a create with that identifier that follows succeeds
\* and stores a new record whose fields come only from the new payload.
C10_Original ==
    [][C10_Freed /\ C10_Gone /\ C10_ClubAgain /\ C10_PlayerAgainAlways]_vars

\* C10 as amended: the same, except that a create_player that follows succeeds
\* only when its payload's club_id is null or a key of the Club repository;
\* otherwise it fails with InvalidReference (never with Conflict) and stores
\* nothing.
C10_Amended ==
    [][C10_Freed /\ C10_Gone /\ C10_ClubAgain /\ C10_PlayerAgainResolved]_vars

\* A Player has just been deleted, after the clock's first reading, while a
\* Club is stored: its identifier is free again.
C10_Witness ==
    /\ last.op = "delete_player"
    /\ last.status = "ok"
    /\ last.id \notin DOMAIN players
    /\ DOMAIN clubs # {}
    /\ now > 0

(***************************************************************************)
(* C11: list and its filters.                                              *)
(***************************************************************************)
\* The record has, in the field of every present filter, the filter's value;
\* for the date field, a date whose YYYY-MM-DD form is the filter's string.
Satisfies(rec, filters) ==
    \A f \in DOMAIN filters :
        IF f = "birth_date"
        THEN rec[f] # NULL /\ isoformat(rec[f]) = filters[f]
        ELSE rec[f] = filters[f]

\* results is the records of the dict d that satisfy the filters, in the
\* dict's order `keys`.
Selected(results, d, keys, filters) ==
    /\ results = SelectSeq(values(d, keys), LAMBDA rec : Satisfies(rec, filters))
    /\ DOMAIN filters = {} =>
          /\ Len(results) = Cardinality(DOMAIN d)
          /\ Range(results) = {d[k] : k \in DOMAIN d}
    /\ (\A k \in DOMAIN d : ~Satisfies(d[k], filters)) => results = <<>>

\* This step is a list request.
Lists == last'.op \in {"list_clubs", "list_players", "list_addresses"}

\* What C11 says of a list_clubs or list_addresses step.
C11_ClubsAddresses ==
    /\ last'.op = "list_clubs" =>
          /\ last'.status = "ok"
          /\ Selected(last'.results, clubs, order.clubs, last'.filters)
    /\ last'.op = "list_addresses" =>
          /\ last'.status = "ok"
          /\ Selected(last'.results, addresses, order.addresses, last'.filters)
    /\ Lists => (StoreUnchanged /\ order' = order)

\* What C11 says of a list_players step.
C11_Players ==
    last'.op = "list_players" =>
        /\ last'.status = "ok"
        /\ Selected(last'.results, players, order.players, last'.filters)

\* C11: for the Club, Player and Address repositories, list(filters) never
\* fails and returns exactly the stored records for which every present filter
\* equals the record's corresponding field, in the repository's own order:
\* every stored record when no filter is present, the empty sequence when no
\* record satisfies all present filters; list changes no repository.
C11_Claim == [][C11_ClubsAddresses /\ C11_Players]_vars

\* C11 for every list request but list_players with birth_date=None.
C11_ExceptNone ==
    [][/\ C11_ClubsAddresses
       /\ \/ /\ last'.op = "list_players"
             /\ "birth_date" \in DOMAIN last'.filters
             /\ last'.filters.birth_date = "None"
          \/ C11_Players]_vars

(***************************************************************************)
(* C12: list_persons and the embedded addresses.                           *)
(***************************************************************************)
\* The filters without the two that look into the addresses.
Direct(filters) == [f \in (DOMAIN filters) \ {"city", "country"} |-> filters[f]]

\* The Person has an address in the city asked for, if one is asked for, and
\* an address (the same or another) in the country asked for, if one is.
Resides(p, filters) ==
    /\ "city" \in DOMAIN filters =>
          \E i \in DOMAIN p.addresses : p.addresses[i].city = filters.city
    /\ "country" \in DOMAIN filters =>
          \E j \in DOMAIN p.addresses : p.addresses[j].country = filters.country

\* C12: list_persons with a city filter c returns exactly the stored persons
\* having at least one embedded address whose city equals c (never a person
\* with no addresses); with city c and country k it returns exactly the
\* persons having an address with city c and an address, possibly a different
\* one, with country k; both combine by AND with the direct-field filters:
\* the result is what the direct-field filters alone return, cut down to those
\* persons.
C12_NestedFilters ==
    [][last'.op = "list_persons" =>
          LET filters == last'.filters
              results == last'.results
          IN  /\ results = SelectSeq(persons_listed(Direct(filters)),
                                     LAMBDA p : Resides(p, filters))
              /\ DOMAIN filters = {"city"} =>
                    Range(results) =
                        {persons[k] : k \in {x \in DOMAIN persons :
                            \E i \in DOMAIN persons[x].addresses :
                                persons[x].addresses[i].city = filters.city}}
              /\ DOMAIN filters \cap {"city", "country"} # {} =>
                    \A i \in DOMAIN results : results[i].addresses # <<>>
              /\ StoreUnchanged]_vars

\* list_persons has been asked for a city and a country and has returned a
\* Person whose address in that city is not the one in that country, while
\* another Person is stored that it did not return.
C12_Witness ==
    /\ last.op = "list_persons"
    /\ {"city", "country"} \subseteq DOMAIN last.filters
    /\ Len(last.results) = 1
    /\ Cardinality(DOMAIN persons) = 2
    /\ LET p == last.results[1]
       IN  /\ Len(p.addresses) = 2
           /\ \A i \in DOMAIN p.addresses :
                 ~(p.addresses[i].city = last.filters.city
                     /\ p.addresses[i].country = last.filters.country)

(***************************************************************************)
(* C13: the two timestamps of a created record.                            *)
(***************************************************************************)
\* C13: every record returned by a successful create of a Club or Player has
\* created_at equal to updated_at, however the clock moves between the steps
\* of the create.
C13_Claim ==
    [][/\ Ended("create_club", "ok") =>
             clubs'[last'.id].created_at = clubs'[last'.id].updated_at
       /\ Ended("create_player", "ok") =>
             players'[last'.id].created_at = players'[last'.id].updated_at]_vars

(***************************************************************************)
(* C14: where a dangling club reference comes from.                        *)
(***************************************************************************)
\* The Player stored under k in the repository ps refers to a Club that the
\* Club repository cs does not hold.
Dangling(ps, cs, k) == ps[k].club_id # NULL /\ ps[k].club_id \notin DOMAIN cs

\* Every stored Player refers to no Club or to one stored now or earlier.
C14_ReferenceSeen ==
    \A k \in DOMAIN players :
        players[k].club_id # NULL => players[k].club_id \in seen \cup DOMAIN clubs

\* A Player create, patch or replace leaves no dangling reference that was
\* not there before it.
C14_NotByPlayerWrite ==
    last'.op \in {"create_player", "update_player", "put_player"} =>
        \A k \in DOMAIN players' :
            Dangling(players', clubs', k) =>
                /\ k \in DOMAIN players
                /\ players[k].club_id = players'[k].club_id

\* C14: in every reachable state every stored Player's non-null club_id names
\* a Club that is in the Club repository now or was in it earlier in the run:
\* a dangling reference arises only through the deletion of the Club, never
\* through a Player create, patch or replace.
C14_Claim == [][C14_ReferenceSeen' /\ C14_NotByPlayerWrite]_vars

\* C14 for create_player alone: the write that looks the Club up.
C14_ByCreate ==
    [][last'.op = "create_player" => C14_NotByPlayerWrite]_vars

(***************************************************************************)
(* C19: the Players of a Club.                                             *)
(***************************************************************************)
\* C19: get_club_players(club_id) fails with NotFound exactly when club_id is
\* no key of the Club repository, even if stored Players still carry that
\* club_id; otherwise it returns exactly the stored Players whose club_id
\* equals club_id, never one with a null or different club_id; it changes
\* neither repository.
C19_ClubPlayers ==
    [][last'.op = "get_club_players" =>
          /\ last'.status \in {"ok", "NotFound"}
          /\ last'.status = "NotFound" <=> last'.id \notin DOMAIN clubs
          /\ last'.status = "ok" =>
                /\ Range(last'.results) =
                      {players[k] : k \in {x \in DOMAIN players :
                                              players[x].club_id = last'.id}}
                /\ Len(last'.results) = Cardinality(Range(last'.results))
                /\ \A i \in DOMAIN last'.results :
                      /\ last'.results[i].club_id # NULL
                      /\ last'.results[i].club_id = last'.id
          /\ StoreUnchanged]_vars

\* get_club_players has answered NotFound for a deleted Club that a stored
\* Player still refers to.
C19_Witness ==
    /\ last.op = "get_club_players"
    /\ last.status = "NotFound"
    /\ last.id \in seen
    /\ \E k \in DOMAIN players : players[k].club_id = last.id

(***************************************************************************)
(* C15: the birth_date filter.                                             *)
(***************************************************************************)
\* This step is a list_players or list_persons request with a birth_date.
ListsByBirthDate ==
    /\ last'.op \in {"list_players", "list_persons"}
    /\ "birth_date" \in DOMAIN last'.filters

\* Every record the step returned has a birth date, and its YYYY-MM-DD form is
\* the filter's string.
C15_OnlyThatDate ==
    \A i \in DOMAIN last'.results :
        /\ last'.results[i].birth_date # NULL
        /\ isoformat(last'.results[i].birth_date) = last'.filters.birth_date

\* C15: list_players and list_persons with a birth_date filter value v return
\* only records whose birth_date is present and whose YYYY-MM-DD string form
\* equals v; whatever the string v, a record whose birth_date is null is never
\* returned.
C15_Claim == [][ListsByBirthDate => C15_OnlyThatDate]_vars

\* C15 for every filter string but "None".
C15_ExceptNone ==
    [][(ListsByBirthDate /\ last'.filters.birth_date # "None")
          => C15_OnlyThatDate]_vars

(***************************************************************************)
(* C16: two creates with one identifier, side by side.                     *)
(***************************************************************************)
\* Threads t and u are both done with a request `op` on the same identifier:
\* the two requests ran side by side.
BothDone(t, u, op) ==
    /\ t # u
    /\ calls[t].pc = "done" /\ calls[u].pc = "done"
    /\ calls[t].op = op /\ calls[u].op = op
    /\ calls[t].id = calls[u].id

\* Two creates with one identifier that ran side by side did not both succeed.
C16_OneWinner ==
    \A t \in Threads, u \in Threads, op \in {"create_club", "create_player"} :
        BothDone(t, u, op) => ~(calls[t].status = "ok" /\ calls[u].status = "ok")

\* The insert of a create adds a record: it replaces none.
C16_NoOverwrite ==
    \A t \in Threads :
        /\ (At(t, "create_club", "insert") /\ calls'[t].pc = "return")
              => calls[t].id \notin DOMAIN clubs
        /\ (At(t, "create_player", "insert") /\ calls'[t].pc = "return")
              => calls[t].id \notin DOMAIN players

\* C16: when two create requests with the same identifier for the same
\* repository run concurrently, interleaved between the membership check and
\* the insert, exactly one of them succeeds and the other fails with Conflict;
\* the record of a successful create is never overwritten by the other create.
C16_Claim == [][C16_OneWinner' /\ C16_NoOverwrite]_vars

(***************************************************************************)
(* C17: create_player beside delete_club.                                  *)
(***************************************************************************)
\* C17: when create_player with a non-null club_id runs concurrently with
\* delete_club of that Club, the Player is stored only if the Club is in the
\* Club repository at the moment the Player record is inserted: no
\* interleaving stores a Player whose Club was deleted before the insert.
C17_Claim ==
    [][\A t \in Threads :
          (/\ At(t, "create_player", "insert")
           /\ calls'[t].pc = "return"
           /\ calls[t].body.club_id # NULL)
              => calls[t].body.club_id \in DOMAIN clubs]_vars

(***************************************************************************)
(* C18: two patches of one record, side by side.                           *)
(***************************************************************************)
\* The record carries what the PATCH body supplied.
Applied(rec, body) == \A f \in DOMAIN body : rec[f] = body[f]

\* Two successful patches of the record d[id] that ran side by side and
\* supplied disjoint sets of fields are both in the stored record.
C18_BothApplied(op, d) ==
    \A t \in Threads, u \in Threads :
        (/\ BothDone(t, u, op)
         /\ calls[t].status = "ok" /\ calls[u].status = "ok"
         /\ DOMAIN calls[t].body \cap DOMAIN calls[u].body = {})
            => /\ calls[t].id \in DOMAIN d
               /\ Applied(d[calls[t].id], calls[t].body)
               /\ Applied(d[calls[t].id], calls[u].body)

\* C18: when two patch requests on the same existing record run concurrently
\* and supply disjoint sets of fields, then whatever the interleaving of their
\* read and write-back steps the finally stored record carries the supplied
\* values of both patches: no update is lost.
C18_Claim ==
    /\ C18_BothApplied("update_club", clubs)
    /\ C18_BothApplied("update_player", players)

====
